---- MODULE Spec2Model ----
(***************************************************************************)
(* Model of module/github.py: URL validation, the GitHub API requests, the *)
(* nested tree construction and the tree string rendering; and of the      *)
(* Streamlit session of Home.py (Save handler) and the EnvironmentSetup    *)
(* page (page guard).                                                      *)
(*                                                                         *)
(* Python strings are sequences of characters.  A printable ASCII          *)
(* character other than the backquote, and each of "\t", "\n", "\f" and    *)
(* "\r", is the one-character string itself; every other code point is    *)
(* the token "U" followed by its four or more upper-case hexadecimal       *)
(* digits: "U0060" is the backquote, "U00E9" is e with acute, and the four *)
(* box drawing code points of the rendering are "U2502" (vertical bar),    *)
(* "U2514" (corner), "U251C" (tee) and "U2500" (horizontal bar).           *)
(* Python values are tagged records (PyNone, PyStr, PyList, PyDict,        *)
(* PyTuple, PyBool, PyInt, PyBytes) so that values of different Python     *)
(* types can be compared.  An operator that models an expression which can *)
(* raise gives Err(name of the exception) in that case.                    *)
(***************************************************************************)
EXTENDS Integers, Sequences, FiniteSets, TLC

VARIABLES
    op,          \* the public function being called
    url,         \* its _url argument
    pc,          \* position inside the call, or inside the script run
    requests,    \* every requests.get issued so far: endpoint, params, outcome
    branch_i,    \* url_tree_list: index of the next entry of branches_to_try
    commit_sha,  \* url_tree_list: commit_sha
    file_list,   \* url_tree_dict: file_list
    item_i,      \* url_tree_dict: index of the next item of file_list
    tree_dict,   \* url_tree_dict: tree_dict
    result,      \* how the call ended: a returned value or a raised exception
    session_state, \* Streamlit's st.session_state of the browser session
    page,        \* the page the latest script run rendered, and how it ended
    save,        \* Home.py: inputs and check results of the latest Save click
    stale        \* Home.py: Save runs a newer run replaced, still running

github_vars == <<op, url, pc, requests, branch_i, commit_sha, file_list, item_i,
                 tree_dict, result>>
call_vars == <<op, url, requests, branch_i, commit_sha, file_list, item_i,
               tree_dict, result>>
home_vars == <<session_state, page, save, stale>>
vars == <<op, url, pc, requests, branch_i, commit_sha, file_list, item_i,
          tree_dict, result, session_state, page, save, stale>>

(***************************************************************************)
(* Bounds of the model.                                                    *)
(***************************************************************************)
MaxPathLen == 5
MaxEntries == 3
\* Save runs that go on beside the latest run of the session
MaxStale == 1

(***************************************************************************)
(* Python values.                                                          *)
(***************************************************************************)
PyNone == [ty |-> "NoneType"]
PyStr(s) == [ty |-> "str", chars |-> s]
PyBool(b) == [ty |-> "bool", val |-> b]
PyList(s) == [ty |-> "list", elems |-> s]
PyDict(f) == [ty |-> "dict", entries |-> f]
PyTuple(s) == [ty |-> "tuple", items |-> s]
PyInt(n) == [ty |-> "int", val |-> n]
PyBytes(s) == [ty |-> "bytes", bytes |-> s]
EmptyDict == PyDict(<<>>)

IsNone(v) == v.ty = "NoneType"
IsDict(v) == v.ty = "dict"

\* Python truth value of None, str, bool, int, list, dict
Truthy(v) ==
    CASE v.ty = "NoneType" -> FALSE
      [] v.ty = "str" -> v.chars # <<>>
      [] v.ty = "bool" -> v.val
      [] v.ty = "int" -> v.val # 0
      [] v.ty = "list" -> v.elems # <<>>
      [] v.ty = "dict" -> DOMAIN v.entries # {}

Return(v) == [kind |-> "return", value |-> v]
Raise(e) == [kind |-> "raise", exc |-> e]
NoResult == [kind |-> "running"]

(***************************************************************************)
(* Characters and strings.  A character is a one-character TLA+ string     *)
(* when it is printable ASCII other than the backquote, or one of "\t",   *)
(* "\n", "\f", "\r"; any other code point is the token "U" followed by its *)
(* upper-case hexadecimal number of at least four digits ("U0000",         *)
(* "U0060", "U00E9", "U2502", "U1F600").                                   *)
(***************************************************************************)
\* the characters U+0020 .. U+005F and U+0061 .. U+007E
PrintableLow ==
    " !\"#$%&'()*+,-./0123456789:;<=>?@ABCDEFGHIJKLMNOPQRSTUVWXYZ[\\]^_"
PrintableHigh == "abcdefghijklmnopqrstuvwxyz{|}~"
HexDigits == "0123456789ABCDEF"

\* the characters of a TLA+ string, as a Python string of the model
Chars(str) == [i \in 1..Len(str) |-> SubSeq(str, i, i)]

\* position of the character c in the TLA+ string str, 0 when absent
IndexIn(str, c) ==
    IF \E i \in 1..Len(str) : SubSeq(str, i, i) = c
    THEN CHOOSE i \in 1..Len(str) : SubSeq(str, i, i) = c
    ELSE 0

RECURSIVE HexValue(_)
HexValue(h) ==
    IF h = "" THEN 0
    ELSE 16 * HexValue(SubSeq(h, 1, Len(h) - 1))
            + IndexIn(HexDigits, SubSeq(h, Len(h), Len(h))) - 1

RECURSIVE Hex(_)
Hex(n) ==
    IF n < 16 THEN SubSeq(HexDigits, n + 1, n + 1)
    ELSE Hex(n \div 16) \o SubSeq(HexDigits, (n % 16) + 1, (n % 16) + 1)

\* ord(c): code point of a character
Ord(c) ==
    IF c = "\t" THEN 9
    ELSE IF c = "\n" THEN 10
    ELSE IF c = "\f" THEN 12
    ELSE IF c = "\r" THEN 13
    ELSE IF Len(c) = 1 /\ IndexIn(PrintableHigh, c) # 0
    THEN 96 + IndexIn(PrintableHigh, c)
    ELSE IF Len(c) = 1 THEN 31 + IndexIn(PrintableLow, c)
    ELSE HexValue(SubSeq(c, 2, Len(c)))

\* chr(n): the character of a code point
Chr(n) ==
    IF n = 9 THEN "\t"
    ELSE IF n = 10 THEN "\n"
    ELSE IF n = 12 THEN "\f"
    ELSE IF n = 13 THEN "\r"
    ELSE IF n \in 32..95 THEN SubSeq(PrintableLow, n - 31, n - 31)
    ELSE IF n \in 97..126 THEN SubSeq(PrintableHigh, n - 96, n - 96)
    ELSE IF n < 16 THEN "U000" \o Hex(n)
    ELSE IF n < 256 THEN "U00" \o Hex(n)
    ELSE IF n < 4096 THEN "U0" \o Hex(n)
    ELSE "U" \o Hex(n)

\* c.isascii() and c.isalpha()
IsLetter(c) == Ord(c) \in (65..90) \cup (97..122)
\* c.isascii() and c.isdigit()
IsDigit(c) == Ord(c) \in 48..57
\* c in "0123456789ABCDEFabcdef"
IsHexDigit(c) == Ord(c) \in (48..57) \cup (65..70) \cup (97..102)

\* s.lower() for a string of ASCII characters
Lower(s) ==
    [i \in 1..Len(s) |-> IF Ord(s[i]) \in 65..90 THEN Chr(Ord(s[i]) + 32) ELSE s[i]]

\* the characters that occur in s
Range(s) == {s[i] : i \in 1..Len(s)}

\* s with every character of the set cs removed
Remove(s, cs) == SelectSeq(s, LAMBDA c : c \notin cs)

\* a < b on Python strings: lexicographic by code point
StrLess(a, b) ==
    \E i \in 1..Len(b) :
        /\ i <= Len(a) + 1
        /\ \A j \in 1..(i - 1) : a[j] = b[j]
        /\ (i = Len(a) + 1 \/ Ord(a[i]) < Ord(b[i]))

\* s.find(c): the first index of c in s, 0 when absent (Python: -1)
Find(s, c) ==
    IF \E i \in 1..Len(s) : s[i] = c
    THEN CHOOSE i \in 1..Len(s) : s[i] = c /\ \A j \in 1..(i - 1) : s[j] # c
    ELSE 0

\* s.rfind(c): the last index of c in s, 0 when absent
RFind(s, c) ==
    IF \E i \in 1..Len(s) : s[i] = c
    THEN CHOOSE i \in 1..Len(s) : s[i] = c /\ \A j \in (i + 1)..Len(s) : s[j] # c
    ELSE 0

\* s.find(c, from): the first index of c at or after from, 0 when absent
FindFrom(s, c, from) ==
    IF \E i \in from..Len(s) : s[i] = c
    THEN CHOOSE i \in from..Len(s) : s[i] = c /\ \A j \in from..(i - 1) : s[j] # c
    ELSE 0

\* s.split(c)
RECURSIVE Split(_, _)
Split(s, c) ==
    LET i == Find(s, c)
    IN  IF i = 0 THEN <<s>>
        ELSE <<SubSeq(s, 1, i - 1)>> \o Split(SubSeq(s, i + 1, Len(s)), c)

\* s.strip(c)
RECURSIVE LStrip(_, _)
LStrip(s, c) == IF s # <<>> /\ s[1] = c THEN LStrip(Tail(s), c) ELSE s
RECURSIVE RStrip(_, _)
RStrip(s, c) ==
    IF s # <<>> /\ s[Len(s)] = c THEN RStrip(SubSeq(s, 1, Len(s) - 1), c) ELSE s
Strip(s, c) == RStrip(LStrip(s, c), c)

\* sorted(names) for a collection of distinct strings
RECURSIVE Sorted(_)
Sorted(S) ==
    IF S = {} THEN <<>>
    ELSE LET m == CHOOSE x \in S : \A y \in S : x = y \/ StrLess(x, y)
         IN  <<m>> \o Sorted(S \ {m})

RECURSIVE Concat(_)
Concat(ss) == IF ss = <<>> THEN <<>> ELSE Head(ss) \o Concat(Tail(ss))

(***************************************************************************)
(* String literals of the program and of the inputs.                       *)
(***************************************************************************)
S_https == <<"h", "t", "t", "p", "s">>
S_http == <<"h", "t", "t", "p">>
S_git == <<"g", "i", "t">>
S_github_com == <<"g", "i", "t", "h", "u", "b", ".", "c", "o", "m">>
S_gitlab_com == <<"g", "i", "t", "l", "a", "b", ".", "c", "o", "m">>
S_www_github_com == <<"w", "w", "w", ".">> \o S_github_com
S_main == <<"m", "a", "i", "n">>
S_master == <<"m", "a", "s", "t", "e", "r">>
S_repos == <<"/", "r", "e", "p", "o", "s", "/">>
S_branches == <<"/", "b", "r", "a", "n", "c", "h", "e", "s">>
S_readme == <<"/", "r", "e", "a", "d", "m", "e">>
S_git_trees == <<"/", "g", "i", "t", "/", "t", "r", "e", "e", "s", "/">>
S_tree == <<"t", "r", "e", "e">>
S_blob == <<"b", "l", "o", "b">>
S_Root == <<"R", "o", "o", "t", "\n">>

(***************************************************************************)
(* urllib.parse.urlparse (CPython 3.11).  urlsplit strips leading C0       *)
(* control characters and spaces, removes tab, CR and LF, takes as scheme  *)
(* what precedes the first ':' when that starts with an ASCII letter and   *)
(* holds only scheme characters (lower-cased), takes as netloc what        *)
(* follows a leading '//' up to the first of '/', '?', '#', raises         *)
(* ValueError for an unbalanced or ill-formed bracketed host and for a     *)
(* netloc that has '/', '?', '#', '@' or ':' under NFKC normalisation, and *)
(* cuts fragment and query off the path; urlparse cuts the params off the  *)
(* last path segment.  A value with ty "error" stands for the exception    *)
(* the call raises.                                                        *)
(***************************************************************************)
Err(e) == [ty |-> "error", exc |-> e]
IsErr(v) == v.ty = "error"

\* c in urllib.parse.scheme_chars
IsSchemeChar(c) == IsLetter(c) \/ IsDigit(c) \/ c \in {"+", "-", "."}

\* urllib.parse.uses_params
uses_params ==
    { Chars(""), Chars("ftp"), Chars("hdl"), Chars("prospero"), Chars("http"),
      Chars("imap"), Chars("https"), Chars("shttp"), Chars("rtsp"),
      Chars("rtsps"), Chars("rtspu"), Chars("sip"), Chars("sips"), Chars("mms"),
      Chars("sftp"), Chars("tel") }

\* url.lstrip(_WHATWG_C0_CONTROL_OR_SPACE)
RECURSIVE LStripC0(_)
LStripC0(s) == IF s # <<>> /\ Ord(s[1]) <= 32 THEN LStripC0(Tail(s)) ELSE s

\* index of the first of '/', '?', '#' in s at or after position from, else Len(s)+1
FirstDelim(s, from) ==
    IF \E i \in from..Len(s) : s[i] \in {"/", "?", "#"}
    THEN CHOOSE i \in from..Len(s) :
            /\ s[i] \in {"/", "?", "#"}
            /\ \A j \in from..(i - 1) : s[j] \notin {"/", "?", "#"}
    ELSE Len(s) + 1

\* ipaddress.IPv4Address._parse_octet does not raise
IsOctet(s) ==
    /\ s # <<>>
    /\ \A i \in 1..Len(s) : IsDigit(s[i])
    /\ Len(s) <= 3
    /\ (Len(s) = 1 \/ s[1] # "0")
    /\ (Len(s) < 3 \/ (Ord(s[1]) - 48) * 100 + (Ord(s[2]) - 48) * 10 + Ord(s[3]) - 48 <= 255)

\* ipaddress.IPv4Address(s) does not raise
IsIPv4(s) ==
    /\ s # <<>>
    /\ LET octets == Split(s, ".")
       IN  Len(octets) = 4 /\ \A i \in 1..4 : IsOctet(octets[i])

\* ipaddress.IPv6Address._parse_hextet does not raise
IsHextet(s) ==
    /\ \A i \in 1..Len(s) : IsHexDigit(s[i])
    /\ Len(s) <= 4
    /\ s # <<>>

\* the parts of an address split at ':', an IPv4 suffix replaced by its two
\* hextets
Hextets(split) ==
    IF "." \in Range(split[Len(split)])
    THEN SubSeq(split, 1, Len(split) - 1) \o <<<<"0">>, <<"0">>>>
    ELSE split

\* where the parts hold '::'
Skips(parts) == {i \in 2..(Len(parts) - 1) : parts[i] = <<>>}

\* the checks of the parts around the '::' at skip_index
AroundSkipOk(parts, skip_index) ==
    LET hi == IF parts[1] = <<>> THEN skip_index - 2 ELSE skip_index - 1
        lo == IF parts[Len(parts)] = <<>>
              THEN Len(parts) - skip_index - 1
              ELSE Len(parts) - skip_index
    IN  /\ parts[1] = <<>> => hi = 0
        /\ parts[Len(parts)] = <<>> => lo = 0
        /\ 8 - (hi + lo) >= 1
        /\ \A i \in 1..hi : IsHextet(parts[i])
        /\ \A i \in (Len(parts) - lo + 1)..Len(parts) : IsHextet(parts[i])

PartsOk(parts) ==
    /\ Len(parts) <= 9
    /\ Cardinality(Skips(parts)) <= 1
    /\ IF Skips(parts) # {}
       THEN AroundSkipOk(parts, CHOOSE i \in Skips(parts) : TRUE)
       ELSE /\ Len(parts) = 8
            /\ \A i \in 1..8 : IsHextet(parts[i])

SplitOk(split) ==
    /\ Len(split) >= 3
    /\ "." \in Range(split[Len(split)]) => IsIPv4(split[Len(split)])
    /\ PartsOk(Hextets(split))

\* ipaddress.IPv6Address._ip_int_from_string does not raise
IsIPv6Int(ip_str) == ip_str # <<>> /\ SplitOk(Split(ip_str, ":"))

\* ipaddress.IPv6Address(s) does not raise
IsIPv6(s) ==
    LET p == Find(s, "%")
        addr == IF p = 0 THEN s ELSE SubSeq(s, 1, p - 1)
        scope_id == SubSeq(s, p + 1, Len(s))
    IN  /\ p # 0 => (scope_id # <<>> /\ "%" \notin Range(scope_id))
        /\ IsIPv6Int(addr)

\* re.match(r"\Av[a-fA-F0-9]+\..+\Z", hostname) for a hostname without "\n"
IsIPvFuture(hostname) ==
    LET dot == Find(hostname, ".")
    IN  /\ hostname # <<>>
        /\ hostname[1] = "v"
        /\ dot >= 3
        /\ \A i \in 2..(dot - 1) : IsHexDigit(hostname[i])
        /\ Len(hostname) > dot

\* urllib.parse._check_bracketed_host does not raise
BracketedHostOk(hostname) ==
    IF hostname # <<>> /\ hostname[1] = "v"
    THEN IsIPvFuture(hostname)
    ELSE IsIPv6(hostname)

\* the characters outside ASCII whose NFKC form holds one of '/', '?', '#',
\* '@', ':' (Unicode 14.0.0)
NfkcUnsafe ==
    { "U2047", "U2048", "U2049", "U2100", "U2101", "U2105", "U2106", "U2A74",
      "UFE13", "UFE16", "UFE55", "UFE56", "UFE5F", "UFE6B", "UFF03", "UFF0F",
      "UFF1A", "UFF1F", "UFF20" }

\* s up to the first c, and s after it
BeforeChar(s, c) == LET i == Find(s, c) IN IF i = 0 THEN s ELSE SubSeq(s, 1, i - 1)
AfterChar(s, c) == LET i == Find(s, c) IN IF i = 0 THEN <<>> ELSE SubSeq(s, i + 1, Len(s))

\* urlsplit from "if '?' in url" on
SplitQuery(scheme, netloc, _url, fragment) ==
    IF Range(netloc) \cap NfkcUnsafe # {}
    THEN Err("ValueError")
    ELSE [ty |-> "SplitResult", scheme |-> scheme, netloc |-> netloc,
          path |-> BeforeChar(_url, "?"), query |-> AfterChar(_url, "?"),
          fragment |-> fragment]

\* urlsplit from the checks of the brackets in netloc on
SplitFragment(scheme, netloc, _url) ==
    IF ("[" \in Range(netloc)) # ("]" \in Range(netloc))
    THEN Err("ValueError")
    ELSE IF "[" \in Range(netloc) /\ ~BracketedHostOk(BeforeChar(AfterChar(netloc, "["), "]"))
    THEN Err("ValueError")
    ELSE SplitQuery(scheme, netloc, BeforeChar(_url, "#"), AfterChar(_url, "#"))

\* url[:2] == '//'
HasNetloc(_url) == Len(_url) >= 2 /\ _url[1] = "/" /\ _url[2] = "/"

\* urlsplit from "if url[:2] == '//'" on
SplitNetloc(scheme, _url) ==
    SplitFragment(scheme,
                  IF HasNetloc(_url) THEN SubSeq(_url, 3, FirstDelim(_url, 3) - 1)
                  ELSE <<>>,
                  IF HasNetloc(_url) THEN SubSeq(_url, FirstDelim(_url, 3), Len(_url))
                  ELSE _url)

\* url[:i] is a scheme
HasScheme(_url) ==
    LET i == Find(_url, ":")
    IN  /\ i > 1
        /\ IsLetter(_url[1])
        /\ \A j \in 1..(i - 1) : IsSchemeChar(_url[j])

\* urlsplit from "i = url.find(':')" on
SplitScheme(_url) ==
    SplitNetloc(IF HasScheme(_url) THEN Lower(BeforeChar(_url, ":")) ELSE <<>>,
                IF HasScheme(_url) THEN AfterChar(_url, ":") ELSE _url)

\* urllib.parse.urlsplit: the SplitResult, or the exception
urlsplit(_url) == SplitScheme(Remove(LStripC0(_url), {"\t", "\r", "\n"}))

\* urllib.parse._splitparams for a url that holds ';'
splitparams(_url) ==
    LET i == IF "/" \in Range(_url)
             THEN FindFrom(_url, ";", RFind(_url, "/"))
             ELSE Find(_url, ";")
    IN  IF i = 0 THEN <<_url, <<>>>>
        ELSE <<SubSeq(_url, 1, i - 1), SubSeq(_url, i + 1, Len(_url))>>

\* the path and the params of a split URL
PathAndParams(s) ==
    IF s.scheme \in uses_params /\ ";" \in Range(s.path)
    THEN splitparams(s.path)
    ELSE <<s.path, <<>>>>

\* urlparse after urlsplit
ParseResult(s) ==
    IF IsErr(s) THEN s
    ELSE [ty |-> "ParseResult", scheme |-> s.scheme, netloc |-> s.netloc,
          path |-> PathAndParams(s)[1], params |-> PathAndParams(s)[2],
          query |-> s.query, fragment |-> s.fragment]

\* urllib.parse.urlparse: the ParseResult, or the exception
urlparse(_url) == ParseResult(urlsplit(_url))

(***************************************************************************)
(* parse_github_repo_url and url_check.                                    *)
(***************************************************************************)
\* parsed.path.strip("/").split("/")
Paths(parsed) == Split(Strip(parsed.path, "/"), "/")

\* parse_github_repo_url after line 22
RepoOf(parsed) ==
    IF IsErr(parsed) THEN parsed
    ELSE IF parsed.scheme # S_https THEN PyTuple(<<PyNone, PyNone>>)
    ELSE IF parsed.netloc # S_github_com THEN PyTuple(<<PyNone, PyNone>>)
    ELSE IF Len(Paths(parsed)) < 2 THEN PyTuple(<<PyNone, PyNone>>)
    ELSE IF Paths(parsed)[1] = <<>> \/ Paths(parsed)[2] = <<>>
    THEN PyTuple(<<PyNone, PyNone>>)
    ELSE PyTuple(<<PyStr(Paths(parsed)[1]), PyStr(Paths(parsed)[2])>>)

\* the (owner, repo) pair, or the exception of urlparse
parse_github_repo_url(_url) == RepoOf(urlparse(_url))

\* bool(owner and repo)
BothNamed(pair) ==
    IF IsErr(pair) THEN pair
    ELSE PyBool(Truthy(IF Truthy(pair.items[1]) THEN pair.items[2] ELSE pair.items[1]))

\* the bool, or the exception of parse_github_repo_url
url_check(_url) == BothNamed(parse_github_repo_url(_url))

(***************************************************************************)
(* Inputs: URLs.                                                           *)
(***************************************************************************)
SeqsUpTo(A, n) == UNION {[1..k -> A] : k \in 0..n}

Schemes == {S_https, S_http, S_git}
Hosts == {S_github_com, S_gitlab_com, S_www_github_com}
\* a URL path is empty or starts with '/'
UrlPaths == {<<>>} \cup {<<"/">> \o p : p \in SeqsUpTo({"/", "a", "b"}, MaxPathLen)}
UrlSuffixes == {<<>>, <<"?", "a", "#", "b">>}
UrlParts == [scheme : Schemes, host : Hosts, path : UrlPaths, suffix : UrlSuffixes]
UrlOf(p) == p.scheme \o <<":", "/", "/">> \o p.host \o p.path \o p.suffix
\* URLs the parser reads in its own way: an upper-case scheme, a blank in
\* front, a tab or a newline inside, path parameters, a bracketed host
UrlExtras ==
    { Chars("HTTPS://github.com/a/b"),
      Chars(" https://github.com/a/b"),
      Chars("https://git\thub.com/a/b"),
      Chars("https://github.com/a\t/b"),
      Chars("https://github.com/a/b\n"),
      Chars("https://github.com/a/b;x"),
      Chars("https://[::1]/a/b"),
      Chars("https://[github.com/a/b") }
Urls == {UrlOf(p) : p \in UrlParts} \cup UrlExtras

\* the URLs the fetching functions are called with
UrlSamples ==
    { Chars("https://github.com/a/b"),
      Chars("HTTPS://github.com/b/a/a;x?a#b"),
      Chars("http://github.com/a/b"),
      Chars("https://gitlab.com/a/b"),
      Chars("https://www.github.com/a/b"),
      Chars("https://github.com/a"),
      Chars("https://github.com/a//b"),
      Chars("https://[github.com/a/b"),
      Chars("github.com/a/b"),
      <<>> }

(***************************************************************************)
(* The remote: what one requests.get can end with.  exc is a raised        *)
(* requests.RequestException (network failure, timeout); otherwise the     *)
(* response has a status code and a decoded JSON body.                     *)
(***************************************************************************)
NetworkFailure == [exc |-> TRUE]
Http(status, body) == [exc |-> FALSE, status |-> status, body |-> body]
FailedOutcomes == {NetworkFailure, Http(404, PyNone)}

\* the "sha" of a branch body: a name, the empty string and JSON null
ShaValues == {PyStr(<<"c", "1">>), PyStr(<<>>), PyNone}
BranchBodies ==
    {PyDict([commit |-> PyDict([sha |-> v])]) : v \in ShaValues}
        \cup {PyDict([commit |-> EmptyDict]), EmptyDict}
BranchOutcomes == FailedOutcomes \cup {Http(200, b) : b \in BranchBodies}

BranchListBodies ==
    { PyList(<<>>),
      PyList(<<PyDict([name |-> PyStr(S_main)]), PyDict([name |-> PyStr(S_master)])>>),
      PyList(<<PyDict([name |-> PyStr(S_main)]), EmptyDict>>),
      PyList(<<PyInt(7)>>) }
BranchListOutcomes == FailedOutcomes \cup {Http(200, b) : b \in BranchListBodies}

\* README contents: base64 of the text "a", base64 of the text "ab" broken
\* into two lines, base64 of the bytes C3 A9 FF (U+00E9 and a byte that is
\* not UTF-8), a string that is not base64, and JSON null
B64_a == <<"Y", "Q", "=", "=">>
B64_ab == <<"Y", "W", "\n", "I", "=">>
B64_e9_ff == <<"w", "6", "n", "/">>
B64_short == <<"Y">>
ReadmeBodies ==
    { PyDict([content |-> PyStr(B64_a)]), PyDict([content |-> PyStr(B64_ab)]),
      PyDict([content |-> PyStr(B64_e9_ff)]), PyDict([content |-> PyStr(B64_short)]),
      PyDict([content |-> PyNone]), EmptyDict }
ReadmeOutcomes == FailedOutcomes \cup {Http(200, b) : b \in ReadmeBodies}

\* paths and records of a tree listing
P_src == <<"s", "r", "c">>
P_src_a_py == <<"s", "r", "c", "/", "a", ".", "p", "y">>
P_src_b == <<"s", "r", "c", "/", "b">>
P_src_b_c_py == <<"s", "r", "c", "/", "b", "/", "c", ".", "p", "y">>
P_a_py == <<"a", ".", "p", "y">>
P_b == <<"b">>
TreeRecords ==
    { [path |-> PyStr(P_src), type |-> PyStr(S_tree)],
      [path |-> PyStr(P_src), type |-> PyStr(S_blob)],
      [path |-> PyStr(P_src_a_py), type |-> PyStr(S_blob)],
      [path |-> PyStr(P_src_b), type |-> PyStr(S_tree)],
      [path |-> PyStr(P_src_b_c_py), type |-> PyStr(S_blob)],
      [path |-> PyStr(P_a_py), type |-> PyStr(S_blob)],
      [path |-> PyStr(P_b), type |-> PyStr(S_tree)],
      [path |-> PyStr(P_b), type |-> PyStr(S_blob)],
      [path |-> PyStr(P_b)],
      [type |-> PyStr(S_blob)] }
Listings == SeqsUpTo(TreeRecords, MaxEntries)
TreeBodies ==
    {PyDict([tree |-> PyList([i \in DOMAIN l |-> PyDict(l[i])])]) : l \in Listings}
        \cup {EmptyDict}
TreeOutcomes == FailedOutcomes \cup {Http(200, b) : b \in TreeBodies}

(***************************************************************************)
(* github_api_get: None for a RequestException and for a status other than *)
(* 200, the response otherwise.                                            *)
(***************************************************************************)
github_api_get(o) ==
    IF o.exc THEN PyNone
    ELSE IF o.status # 200 THEN PyNone
    ELSE [ty |-> "Response", json |-> o.body]

Request(endpoint, params, o) == [endpoint |-> endpoint, params |-> params, outcome |-> o]
NoParams == PyNone
RecursiveParams == PyDict([recursive |-> PyStr(<<"1">>)])

\* the endpoint f-strings
BranchesEndpoint(owner, repo) == S_repos \o owner \o <<"/">> \o repo \o S_branches
ReadmeEndpoint(owner, repo) == S_repos \o owner \o <<"/">> \o repo \o S_readme
BranchEndpoint(owner, repo, branch) ==
    S_repos \o owner \o <<"/">> \o repo \o S_branches \o <<"/">> \o branch
TreeEndpoint(owner, repo, sha) == S_repos \o owner \o <<"/">> \o repo \o S_git_trees \o sha

Owner(_url) == parse_github_repo_url(_url).items[1].chars
Repo(_url) == parse_github_repo_url(_url).items[2].chars

\* faulty variant: master is tried first
branches_to_try_MasterFirst == <<S_master, S_main>>

branches_to_try == <<S_main, S_master>>

(***************************************************************************)
(* Python operations on decoded JSON values.  A JSON object is a dict with *)
(* TLA+ strings as keys; its key order is not represented, so repr() is   *)
(* defined for a dict of at most one key only.  JSON floats are not       *)
(* represented.                                                            *)
(***************************************************************************)
\* v[key]
GetItem(v, key) ==
    IF v.ty = "dict"
    THEN IF key \in DOMAIN v.entries THEN v.entries[key] ELSE Err("KeyError")
    ELSE Err("TypeError")

\* needle in s, for Python strings
IsSubstring(needle, s) ==
    \E i \in 1..(Len(s) - Len(needle) + 1) : SubSeq(s, i, i + Len(needle) - 1) = needle

\* key in v, or the exception
Contains(key, v) ==
    CASE v.ty = "dict" -> PyBool(key \in DOMAIN v.entries)
      [] v.ty = "list" ->
            PyBool(\E i \in 1..Len(v.elems) : v.elems[i] = PyStr(Chars(key)))
      [] v.ty = "str" -> PyBool(IsSubstring(Chars(key), v.chars))
      [] OTHER -> Err("TypeError")

\* the list of the values "for x in v" visits, or the exception; a dict
\* gives its keys in insertion order, which the entries of a dict of two or
\* more keys do not record: Iterate is defined for dicts of at most one key
Iterate(v) ==
    CASE v.ty = "list" -> v
      [] v.ty = "str" -> PyList([i \in 1..Len(v.chars) |-> PyStr(<<v.chars[i]>>)])
      [] v.ty = "dict" /\ Cardinality(DOMAIN v.entries) <= 1 ->
            PyList([i \in 1..Cardinality(DOMAIN v.entries) |->
                        PyStr(Chars(CHOOSE k \in DOMAIN v.entries : TRUE))])
      [] v.ty \in {"NoneType", "bool", "int"} -> Err("TypeError")

\* str(n) for an int
RECURSIVE Decimal(_)
Decimal(n) ==
    IF n < 0 THEN <<"-">> \o Decimal(0 - n)
    ELSE IF n < 10 THEN <<Chr(48 + n)>>
    ELSE Decimal(n \div 10) \o <<Chr(48 + (n % 10))>>

\* two or more lower-case hexadecimal digits of n
HexLower(n, width) ==
    LET h == Lower(Chars(Hex(n)))
    IN  [i \in 1..(width - Len(h)) |-> "0"] \o h

\* one character, below U+0100, inside repr(s) quoted with quote
ReprChar(c, quote) ==
    LET n == Ord(c)
    IN  IF n >= 256 THEN CHOOSE x \in {} : TRUE
        ELSE IF c = "\\" THEN <<"\\", "\\">>
        ELSE IF c = quote THEN <<"\\", c>>
        ELSE IF c = "\t" THEN <<"\\", "t">>
        ELSE IF c = "\n" THEN <<"\\", "n">>
        ELSE IF c = "\r" THEN <<"\\", "r">>
        ELSE IF n < 32 \/ n = 127 \/ n \in 128..160 \/ n = 173
        THEN <<"\\", "x">> \o HexLower(n, 2)
        ELSE <<c>>

\* repr(s) for a str
ReprStr(s) ==
    LET quote == IF "'" \in Range(s) /\ "\"" \notin Range(s) THEN "\"" ELSE "'"
    IN  <<quote>> \o Concat([i \in 1..Len(s) |-> ReprChar(s[i], quote)]) \o <<quote>>

\* ", ".join(items)
RECURSIVE JoinComma(_)
JoinComma(items) ==
    IF items = <<>> THEN <<>>
    ELSE IF Len(items) = 1 THEN items[1]
    ELSE items[1] \o <<",", " ">> \o JoinComma(Tail(items))

\* repr(v)
RECURSIVE py_repr(_)
py_repr(v) ==
    CASE v.ty = "NoneType" -> Chars("None")
      [] v.ty = "bool" -> IF v.val THEN Chars("True") ELSE Chars("False")
      [] v.ty = "int" -> Decimal(v.val)
      [] v.ty = "str" -> ReprStr(v.chars)
      [] v.ty = "list" ->
            <<"[">> \o JoinComma([i \in 1..Len(v.elems) |-> py_repr(v.elems[i])])
                \o <<"]">>
      [] v.ty = "dict" /\ Cardinality(DOMAIN v.entries) <= 1 ->
            IF DOMAIN v.entries = {} THEN <<"{", "}">>
            ELSE LET k == CHOOSE key \in DOMAIN v.entries : TRUE
                 IN  <<"{">> \o ReprStr(Chars(k)) \o <<":", " ">>
                         \o py_repr(v.entries[k]) \o <<"}">>

\* str(v)
py_str(v) == IF v.ty = "str" THEN v ELSE PyStr(py_repr(v))

(***************************************************************************)
(* base64.b64decode(content).decode("utf-8", errors="ignore").             *)
(***************************************************************************)
B64Alphabet == "ABCDEFGHIJKLMNOPQRSTUVWXYZabcdefghijklmnopqrstuvwxyz0123456789+/"

\* binascii.a2b_base64, not strict, from position i of data: the bytes, or
\* the exception.  quad_pos, leftchar and pads are the decoder's registers.
RECURSIVE a2b_base64(_, _, _, _, _, _)
a2b_base64(data, i, quad_pos, leftchar, pads, bin) ==
    IF i > Len(data)
    THEN IF quad_pos # 0 THEN Err("binascii.Error") ELSE PyBytes(bin)
    ELSE IF data[i] = "="
    THEN IF quad_pos >= 2 /\ quad_pos + pads + 1 >= 4
         THEN PyBytes(bin)
         ELSE a2b_base64(data, i + 1, quad_pos, leftchar,
                         IF quad_pos >= 2 THEN pads + 1 ELSE pads, bin)
    ELSE IF IndexIn(B64Alphabet, data[i]) = 0
    THEN a2b_base64(data, i + 1, quad_pos, leftchar, pads, bin)
    ELSE LET this_ch == IndexIn(B64Alphabet, data[i]) - 1
         IN  CASE quad_pos = 0 ->
                    a2b_base64(data, i + 1, 1, this_ch, 0, bin)
               [] quad_pos = 1 ->
                    a2b_base64(data, i + 1, 2, this_ch % 16, 0,
                               Append(bin, leftchar * 4 + this_ch \div 16))
               [] quad_pos = 2 ->
                    a2b_base64(data, i + 1, 3, this_ch % 4, 0,
                               Append(bin, leftchar * 16 + this_ch \div 4))
               [] quad_pos = 3 ->
                    a2b_base64(data, i + 1, 0, 0, 0,
                               Append(bin, leftchar * 64 + this_ch))

\* base64.b64decode(s): the bytes, or the exception
b64decode(s) ==
    IF s.ty # "str" THEN Err("TypeError")
    ELSE IF \E i \in 1..Len(s.chars) : Ord(s.chars[i]) >= 128 THEN Err("ValueError")
    ELSE a2b_base64(s.chars, 1, 0, 0, 0, <<>>)

IsContinuation(b) == b \in 128..191

\* bytes.decode("utf-8", errors="ignore") from position i of b: an ill-formed
\* sequence is dropped up to the byte that breaks it, a truncated one to the end
RECURSIVE Utf8Decode(_, _, _)
Utf8Decode(b, i, out) ==
    IF i > Len(b) THEN out
    ELSE LET ch == b[i]
             left == Len(b) - i + 1
             ch2 == b[i + 1]
             ch3 == b[i + 2]
             ch4 == b[i + 3]
             skip(n) == Utf8Decode(b, i + n, out)
             take(n, cp) == Utf8Decode(b, i + n, Append(out, Chr(cp)))
         IN  IF ch < 128 THEN take(1, ch)
             ELSE IF ch < 194 THEN skip(1)
             ELSE IF ch < 224
             THEN IF left < 2 THEN out
                  ELSE IF ~IsContinuation(ch2) THEN skip(1)
                  ELSE take(2, (ch % 32) * 64 + (ch2 % 64))
             ELSE IF ch < 240
             THEN IF left < 2 THEN out
                  ELSE IF ~IsContinuation(ch2) THEN skip(1)
                  ELSE IF ch = 224 /\ ch2 < 160 THEN skip(1)
                  ELSE IF ch = 237 /\ ch2 >= 160 THEN skip(1)
                  ELSE IF left < 3 THEN out
                  ELSE IF ~IsContinuation(ch3) THEN skip(2)
                  ELSE take(3, (ch % 16) * 4096 + (ch2 % 64) * 64 + (ch3 % 64))
             ELSE IF ch < 245
             THEN IF left < 2 THEN out
                  ELSE IF ~IsContinuation(ch2) THEN skip(1)
                  ELSE IF ch = 240 /\ ch2 < 144 THEN skip(1)
                  ELSE IF ch = 244 /\ ch2 >= 144 THEN skip(1)
                  ELSE IF left < 3 THEN out
                  ELSE IF ~IsContinuation(ch3) THEN skip(2)
                  ELSE IF left < 4 THEN out
                  ELSE IF ~IsContinuation(ch4) THEN skip(3)
                  ELSE take(4, (ch % 8) * 262144 + (ch2 % 64) * 4096
                                    + (ch3 % 64) * 64 + (ch4 % 64))
             ELSE skip(1)

\* base64.b64decode(content).decode("utf-8", errors="ignore")
B64Decode(content) ==
    LET readme_bytes == b64decode(content)
    IN  IF IsErr(readme_bytes) THEN readme_bytes
        ELSE PyStr(Utf8Decode(readme_bytes.bytes, 1, <<>>))

(***************************************************************************)
(* url_tree_dict: the body of the loop over file_list.  A value with       *)
(* ty "error" stands for the exception the statement raises.               *)
(***************************************************************************)
\* d[k] = v on the entries of a dict
Put(f, k, v) == [x \in DOMAIN f \cup {k} |-> IF x = k THEN v ELSE f[x]]
\* d.setdefault(k, v): the value under k afterwards
SetDefault(f, k, v) == IF k \in DOMAIN f THEN f[k] ELSE v

\* node is the object the walk has reached, parts the segments still to place
RECURSIVE Place(_, _, _)
Place(node, parts, item) ==
    IF Len(parts) > 1
    THEN \* for p in parts[:-1]: node = node.setdefault(p, {})
         IF IsNone(node) THEN Err("AttributeError")
         ELSE LET child == SetDefault(node.entries, parts[1], EmptyDict)
                  sub == Place(child, Tail(parts), item)
              IN  IF IsErr(sub) THEN sub
                  ELSE PyDict(Put(node.entries, parts[1], sub))
    ELSE IF IsErr(GetItem(item, "type")) THEN GetItem(item, "type")
    ELSE IF GetItem(item, "type") = PyStr(S_tree)
    THEN \* node.setdefault(parts[-1], {})
         IF IsNone(node) THEN Err("AttributeError")
         ELSE PyDict(Put(node.entries, parts[1],
                         SetDefault(node.entries, parts[1], EmptyDict)))
    ELSE \* node[parts[-1]] = None
         IF IsNone(node) THEN Err("TypeError")
         ELSE PyDict(Put(node.entries, parts[1], PyNone))

\* item["path"].split("/") and the statements after it
InsertItem(tree, item) ==
    LET path == GetItem(item, "path")
    IN  IF IsErr(path) THEN path
        ELSE IF path.ty # "str" THEN Err("AttributeError")
        ELSE Place(tree, Split(path.chars, "/"), item)

\* the whole loop over file_list, started from tree
RECURSIVE BuildFrom(_, _)
BuildFrom(tree, items) ==
    IF items = <<>> THEN tree
    ELSE LET next == InsertItem(tree, Head(items))
         IN  IF IsErr(next) THEN next ELSE BuildFrom(next, Tail(items))

(***************************************************************************)
(* url_tree_string: the stack loop.  A stack entry is (node, name,         *)
(* depth_info); the top of the stack is the last element.                  *)
(***************************************************************************)
G_blank == <<" ", " ", " ", " ">>
G_bar == <<"U2502", " ", " ", " ">>
G_last == <<"U2514", "U2500", "U2500", " ">>
G_tee == <<"U251C", "U2500", "U2500", " ">>

\* faulty variant: the bar is drawn under a last sibling, the blank under the others
Indent_Swapped(depth_info) ==
    Concat([i \in 1..(Len(depth_info) - 1) |->
                IF depth_info[i] THEN G_bar ELSE G_blank])

Indent(depth_info) ==
    Concat([i \in 1..(Len(depth_info) - 1) |->
                IF depth_info[i] THEN G_blank ELSE G_bar])

Line(node, name, depth_info) ==
    Indent(depth_info)
        \o (IF depth_info[Len(depth_info)] THEN G_last ELSE G_tee)
        \o name.chars
        \o (IF IsDict(node) THEN <<"/", "\n">> ELSE <<"\n">>)

Folders(node) == Sorted({k \in DOMAIN node.entries : IsDict(node.entries[k])})
Files(node) == Sorted({k \in DOMAIN node.entries : IsNone(node.entries[k])})
\* faulty variant: the files are listed before the folders
Keys_FilesFirst(node) == Files(node) \o Folders(node)
Keys(node) == Folders(node) \o Files(node)

\* what the for loop appends to the stack: the children, last key first
Pushed(node, depth_info) ==
    LET keys == Keys(node)
        n == Len(keys)
    IN  [j \in 1..n |->
            [node |-> node.entries[keys[n + 1 - j]],
             name |-> PyStr(keys[n + 1 - j]),
             depth_info |-> depth_info \o <<(n + 1 - j) = n>>]]

RECURSIVE RenderLoop(_, _)
RenderLoop(stack, tree_string) ==
    IF stack = <<>> THEN tree_string
    ELSE LET top == stack[Len(stack)]
             rest == SubSeq(stack, 1, Len(stack) - 1)
             line == IF IsNone(top.name) THEN <<>>
                     ELSE Line(top.node, top.name, top.depth_info)
             more == IF IsDict(top.node) THEN Pushed(top.node, top.depth_info)
                     ELSE <<>>
         IN  RenderLoop(rest \o more, tree_string \o line)

Render(tree) ==
    S_Root \o RenderLoop(<<[node |-> tree, name |-> PyNone, depth_info |-> <<>>]>>, <<>>)

\* faulty variant: "if not tree_dict" in place of "if tree_dict is None"
TreeStringOf_Falsy(tree) ==
    IF ~Truthy(tree) THEN PyNone ELSE PyStr(Render(tree))

\* url_tree_string from the value url_tree_dict returned
TreeStringOf(tree) ==
    IF IsNone(tree) THEN PyNone ELSE PyStr(Render(tree))

(***************************************************************************)
(* Home.py and pages/02_EnvironmentSetup.py: the Streamlit session.  Every *)
(* interaction of the user reruns a page script from top to bottom against *)
(* the st.session_state of the browser session, and ends the run that is   *)
(* in progress at the st.* call that run has reached.  options is the dict *)
(* object st.session_state["options"] holds, so an assignment to one of    *)
(* its keys changes the session at once.                                   *)
(***************************************************************************)
S_Korean == <<"K", "o", "r", "e", "a", "n">>
S_GPT == <<"G", "P", "T">>
S_GEMINI == <<"G", "E", "M", "I", "N", "I">>
S_empty == <<>>

\* what the user types into the API key field
ApiKeys == {S_empty, <<"k", "1">>, <<"k", "2">>}
\* gemini.api_check; answered: the test request returns rather than raises
gemini_api_check(_key, answered) ==
    IF ~Truthy(_key) \/ _key.ty # "str" THEN FALSE ELSE answered

\* gpt.api_check, which has the contract of gemini.api_check
gpt_api_check(_key, answered) ==
    IF ~Truthy(_key) \/ _key.ty # "str" THEN FALSE ELSE answered

\* the contents of a new session, and of a session after Save
NewContents ==
    LET comment == PyDict(Put(<<>>, "AI Comment", PyStr(S_empty)))
        first == PyDict(Put(comment.entries, "File Tree", PyStr(S_empty)))
    IN  PyDict(Put(Put(Put(Put(<<>>, "01", first), "02", comment), "03", comment),
                   "04", comment))

\* if "options" not in st.session_state: ... if "contents" not in ...
SessionInit(session) ==
    LET with_options ==
            Put(session.entries, "options",
                SetDefault(session.entries, "options",
                           PyDict([language |-> PyStr(S_Korean),
                                   api_key |-> PyStr(S_empty),
                                   api_type |-> PyStr(S_empty),
                                   repository_url |-> PyStr(S_empty)])))
    IN  PyDict(Put(with_options, "contents",
                   SetDefault(with_options, "contents", NewContents)))

\* st.session_state.get(key, default)
Get(session, key, default) ==
    IF key \in DOMAIN session.entries THEN session.entries[key] ELSE default

\* lines 61-72 of "if st.sidebar.button("Save")": the options after the API
\* key check
KeyChecked(options, api_key, gpt_answered, gemini_answered) ==
    IF gpt_api_check(api_key, gpt_answered)
    THEN PyDict(Put(Put(options.entries, "api_key", api_key), "api_type", PyStr(S_GPT)))
    ELSE IF gemini_api_check(api_key, gemini_answered)
    THEN PyDict(Put(Put(options.entries, "api_key", api_key), "api_type", PyStr(S_GEMINI)))
    ELSE PyDict(Put(Put(options.entries, "api_key", PyStr(S_empty)),
                    "api_type", PyStr(S_empty)))

\* lines 74-79: the options after the repository URL check, or the exception
\* of url_check, which leaves them as they are
UrlChecked(options, repository_url) ==
    LET checked == url_check(repository_url.chars)
    IN  IF IsErr(checked) THEN checked
        ELSE IF checked.val
        THEN PyDict(Put(options.entries, "repository_url", repository_url))
        ELSE PyDict(Put(options.entries, "repository_url", PyStr(S_empty)))

\* Check input: st.success when both are stored, st.error otherwise
CheckInput(options) ==
    IF Truthy(options.entries.api_key) /\ Truthy(options.entries.repository_url)
    THEN "success"
    ELSE "error"

\* what a script run put on the page: its message box and whether st.stop ran
Shown(name, message, stopped) ==
    [name |-> name, message |-> message, stopped |-> stopped]
NoPage == Shown("", "", FALSE)

\* the latest click on Save: what was typed, what the key checks answered
\* (FALSE until they have), and where its run is: "wait" in the api_check
\* calls of lines 61 and 65, "type" between the two assignments that follow
\* (lines 62-63, 66-67, 70-71), "key" in the st.sidebar call after them
\* (lines 64, 68, 72), "url" in the one after the URL check (lines 76, 79),
\* "written" in the st.title call after line 82, "end" after line 97,
\* "raised" ended by an exception, "cut" replaced by the run of the next
\* interaction
NoSave == [clicked |-> FALSE]
Cut(s) ==
    IF s.clicked /\ s.at \in {"wait", "type", "key", "url", "written"}
    THEN [s EXCEPT !.at = "cut"]
    ELSE s

\* The run of the next interaction starts at once, in a thread of its own;
\* the run it replaces ends only inside the next st.* call it makes, so the
\* statements it has before that call still run, beside the new run and on
\* the options dict that both hold (line 42).  A Save run replaced at "wait"
\* or "type" is outside every st.* call: it goes on.  One replaced at "key"
\* or "url" ends in that very call, or is past the point where the call
\* looks for the request to stop, and goes on to the next one.  One replaced
\* at "written" has only st.* calls and Check input ahead and writes nothing.
\* What is kept of a run that goes on is the part it still runs, and the
\* value that part writes: the key check with its api_key, line 63, 67 or
\* 71 with its api_type, lines 74-79 with its repository_url, lines 81-82.
\* stale' is one of ReplacedRuns; no new run starts while there would be
\* more than MaxStale.
ReplacedRuns ==
    LET on == Append(stale,
                [part |-> save.at,
                 typed |-> IF save.at = "wait" THEN save.api_key
                           ELSE IF save.at = "type"
                           THEN KeyChecked(session_state.entries.options, save.api_key,
                                           save.gpt, save.gemini).entries.api_type
                           ELSE IF save.at = "key" THEN save.repository_url
                           ELSE PyNone])
    IN  IF pc = "save" /\ save.at \in {"wait", "type"}
        THEN IF Len(stale) < MaxStale THEN {on} ELSE {}
        ELSE IF pc = "save" /\ save.at \in {"key", "url"} /\ Len(stale) < MaxStale
        THEN {stale, on}
        ELSE {stale}

\* a browser session before any page has run
NewSession ==
    /\ session_state = EmptyDict
    /\ page = NoPage
    /\ save = NoSave
    /\ stale = <<>>

(***************************************************************************)
(* The calls.                                                              *)
(***************************************************************************)
ParseOps == {"parse_github_repo_url", "url_check"}
TreeOps == {"url_tree_list", "url_tree_dict", "url_tree_string"}
FetchOps == {"url_branch_list", "url_readme_string"} \cup TreeOps

\* the value a fetching function returns for "no result"
Absent(f) == IF f = "url_branch_list" THEN PyList(<<>>) ELSE PyNone

Idle ==
    /\ requests = <<>>
    /\ branch_i = 1
    /\ commit_sha = PyNone
    /\ file_list = PyNone
    /\ item_i = 1
    /\ tree_dict = PyNone
    /\ result = NoResult

Init ==
    /\ op \in ParseOps \cup FetchOps
    /\ url \in UrlSamples
    /\ pc = "call"
    /\ Idle
    /\ NewSession

ParseInit ==
    /\ op \in ParseOps
    /\ url \in Urls
    /\ pc = "call"
    /\ Idle
    /\ NewSession

Finish(r) ==
    /\ result' = r
    /\ pc' = "done"

CallParse ==
    /\ pc = "call"
    /\ op = "parse_github_repo_url"
    /\ LET parsed == parse_github_repo_url(url)
       IN  Finish(IF IsErr(parsed) THEN Raise(parsed.exc) ELSE Return(parsed))
    /\ UNCHANGED <<op, url, requests, branch_i, commit_sha, file_list, item_i, tree_dict>>
    /\ UNCHANGED home_vars

CallUrlCheck ==
    /\ pc = "call"
    /\ op = "url_check"
    /\ LET checked == url_check(url)
       IN  Finish(IF IsErr(checked) THEN Raise(checked.exc) ELSE Return(checked))
    /\ UNCHANGED <<op, url, requests, branch_i, commit_sha, file_list, item_i, tree_dict>>
    /\ UNCHANGED home_vars

\* faulty variant: the branches are requested before the URL is checked
InvalidUrl_RequestFirst ==
    /\ pc = "call"
    /\ op \in FetchOps
    /\ url_check(url) = PyBool(FALSE)
    /\ requests' = Append(requests,
            Request(BranchesEndpoint(<<>>, <<>>), NoParams, NetworkFailure))
    /\ Finish(Return(Absent(op)))
    /\ UNCHANGED <<op, url, branch_i, commit_sha, file_list, item_i, tree_dict>>
    /\ UNCHANGED home_vars

\* if not url_check(_url): return [] / return None
InvalidUrl ==
    /\ pc = "call"
    /\ op \in FetchOps
    /\ url_check(url) = PyBool(FALSE)
    /\ Finish(Return(Absent(op)))
    /\ UNCHANGED <<op, url, requests, branch_i, commit_sha, file_list, item_i, tree_dict>>
    /\ UNCHANGED home_vars

\* url_check(_url) raises: the exception leaves the fetching function
UrlCheckRaises ==
    /\ pc = "call"
    /\ op \in FetchOps
    /\ IsErr(url_check(url))
    /\ Finish(Raise(url_check(url).exc))
    /\ UNCHANGED <<op, url, requests, branch_i, commit_sha, file_list, item_i, tree_dict>>
    /\ UNCHANGED home_vars

\* [branch["name"] for branch in branches]
BranchNames(branches) ==
    LET items == Iterate(branches)
        names == [i \in DOMAIN items.elems |-> GetItem(items.elems[i], "name")]
        failed == {i \in DOMAIN names : IsErr(names[i])}
    IN  IF IsErr(items) THEN Raise(items.exc)
        ELSE IF failed # {}
        THEN Raise(names[CHOOSE i \in failed : \A j \in failed : i <= j].exc)
        ELSE Return(PyList(names))

url_branch_list ==
    /\ pc = "call"
    /\ op = "url_branch_list"
    /\ url_check(url) = PyBool(TRUE)
    /\ \E endpoint \in {BranchesEndpoint(Owner(url), Repo(url))} :
       \E o \in BranchListOutcomes :
        LET response == github_api_get(o)
        IN  /\ requests' = Append(requests, Request(endpoint, NoParams, o))
            /\ IF IsNone(response) THEN Finish(Return(PyList(<<>>)))
               ELSE Finish(BranchNames(response.json))
    /\ UNCHANGED <<op, url, branch_i, commit_sha, file_list, item_i, tree_dict>>
    /\ UNCHANGED home_vars

\* url_readme_string from data = response.json() on
ReadmeText(data) ==
    LET has_content == Contains("content", data)
        content == GetItem(data, "content")
        text == B64Decode(content)
    IN  IF IsErr(has_content) THEN Raise(has_content.exc)
        ELSE IF ~has_content.val THEN Return(PyNone)
        ELSE IF IsErr(content) THEN Raise(content.exc)
        ELSE IF IsErr(text) THEN Raise(text.exc)
        ELSE Return(text)

url_readme_string ==
    /\ pc = "call"
    /\ op = "url_readme_string"
    /\ url_check(url) = PyBool(TRUE)
    /\ \E endpoint \in {ReadmeEndpoint(Owner(url), Repo(url))} :
       \E o \in ReadmeOutcomes :
        LET response == github_api_get(o)
        IN  /\ requests' = Append(requests, Request(endpoint, NoParams, o))
            /\ IF IsNone(response) THEN Finish(Return(PyNone))
               ELSE Finish(ReadmeText(response.json))
    /\ UNCHANGED <<op, url, branch_i, commit_sha, file_list, item_i, tree_dict>>
    /\ UNCHANGED home_vars

\* url_tree_list up to the loop over branches_to_try
TreeListEnter ==
    /\ pc = "call"
    /\ op \in TreeOps
    /\ url_check(url) = PyBool(TRUE)
    /\ pc' = "branches"
    /\ branch_i' = 1
    /\ commit_sha' = PyNone
    /\ UNCHANGED <<op, url, requests, file_list, item_i, tree_dict, result>>
    /\ UNCHANGED home_vars

\* str(response.json()["commit"]["sha"])
CommitSha(body) ==
    LET commit == GetItem(body, "commit")
        sha == GetItem(commit, "sha")
    IN  IF IsErr(commit) THEN commit
        ELSE IF IsErr(sha) THEN sha
        ELSE py_str(sha)

\* one iteration of the loop over branches_to_try
BranchLookup ==
    /\ pc = "branches"
    /\ branch_i <= Len(branches_to_try)
    /\ \E endpoint \in {BranchEndpoint(Owner(url), Repo(url), branches_to_try[branch_i])} :
       \E o \in BranchOutcomes :
        LET response == github_api_get(o)
            sha == CommitSha(response.json)
        IN  /\ requests' = Append(requests, Request(endpoint, NoParams, o))
            /\ IF IsNone(response)
               THEN /\ branch_i' = branch_i + 1
                    /\ pc' = IF branch_i = Len(branches_to_try) THEN "fetch" ELSE "branches"
                    /\ UNCHANGED <<commit_sha, result>>
               ELSE IF IsErr(sha)
               THEN /\ Finish(Raise(sha.exc))
                    /\ UNCHANGED <<branch_i, commit_sha>>
               ELSE /\ commit_sha' = sha
                    /\ pc' = "fetch"
                    /\ UNCHANGED <<branch_i, result>>
    /\ UNCHANGED <<op, url, file_list, item_i, tree_dict>>
    /\ UNCHANGED home_vars

\* if not commit_sha: return None (and the callers return None in turn)
NoCommit ==
    /\ pc = "fetch"
    /\ ~Truthy(commit_sha)
    /\ Finish(Return(PyNone))
    /\ UNCHANGED <<op, url, requests, branch_i, commit_sha, file_list, item_i, tree_dict>>
    /\ UNCHANGED home_vars

\* response.json().get("tree", [])
TreeOf(body) ==
    IF body.ty # "dict" THEN Err("AttributeError")
    ELSE IF "tree" \in DOMAIN body.entries THEN body.entries.tree
    ELSE PyList(<<>>)

\* faulty variant: a failed tree request counts as an empty listing
Listed_EmptyOnFailure(response) ==
    IF IsNone(response) THEN PyList(<<>>) ELSE TreeOf(response.json)

\* what url_tree_list returns after the tree request
Listed(response) ==
    IF IsNone(response) THEN PyNone ELSE TreeOf(response.json)

\* the tree request, the return of url_tree_list, and in url_tree_dict the
\* test of file_list and tree_dict = {}
TreeGet ==
    /\ pc = "fetch"
    /\ Truthy(commit_sha)
    /\ \E endpoint \in {TreeEndpoint(Owner(url), Repo(url), commit_sha.chars)} :
       \E o \in TreeOutcomes :
        LET response == github_api_get(o)
        IN  /\ requests' = Append(requests, Request(endpoint, RecursiveParams, o))
            /\ IF IsErr(Listed(response))
               THEN /\ Finish(Raise(Listed(response).exc))
                    /\ UNCHANGED <<file_list, item_i, tree_dict>>
               ELSE IF op = "url_tree_list"
               THEN /\ Finish(Return(Listed(response)))
                    /\ UNCHANGED <<file_list, item_i, tree_dict>>
               ELSE IF IsNone(Listed(response))
               THEN /\ Finish(Return(PyNone))
                    /\ UNCHANGED <<file_list, item_i, tree_dict>>
               ELSE /\ file_list' = Listed(response)
                    /\ item_i' = 1
                    /\ tree_dict' = EmptyDict
                    /\ pc' = "build"
                    /\ UNCHANGED result
    /\ UNCHANGED <<op, url, branch_i, commit_sha>>
    /\ UNCHANGED home_vars

\* the items "for item in file_list" visits, or the exception
Items == Iterate(file_list)

\* one iteration of the loop over file_list
BuildItem ==
    /\ pc = "build"
    /\ IsErr(Items) \/ item_i <= Len(Items.elems)
    /\ LET next == IF IsErr(Items) THEN Items
                   ELSE InsertItem(tree_dict, Items.elems[item_i])
       IN  IF IsErr(next)
           THEN /\ Finish(Raise(next.exc))
                /\ UNCHANGED <<item_i, tree_dict>>
           ELSE /\ tree_dict' = next
                /\ item_i' = item_i + 1
                /\ UNCHANGED <<pc, result>>
    /\ UNCHANGED <<op, url, requests, branch_i, commit_sha, file_list>>
    /\ UNCHANGED home_vars

\* return tree_dict
TreeDictReturn ==
    /\ pc = "build"
    /\ op = "url_tree_dict"
    /\ ~IsErr(Items)
    /\ item_i > Len(Items.elems)
    /\ Finish(Return(tree_dict))
    /\ UNCHANGED <<op, url, requests, branch_i, commit_sha, file_list, item_i, tree_dict>>
    /\ UNCHANGED home_vars

\* url_tree_string after url_tree_dict returned a dict
TreeString ==
    /\ pc = "build"
    /\ op = "url_tree_string"
    /\ ~IsErr(Items)
    /\ item_i > Len(Items.elems)
    /\ Finish(Return(TreeStringOf(tree_dict)))
    /\ UNCHANGED <<op, url, requests, branch_i, commit_sha, file_list, item_i, tree_dict>>
    /\ UNCHANGED home_vars

ParseNext == CallParse \/ CallUrlCheck

Next ==
    \/ CallParse
    \/ CallUrlCheck
    \/ InvalidUrl
    \/ UrlCheckRaises
    \/ url_branch_list
    \/ url_readme_string
    \/ TreeListEnter
    \/ BranchLookup
    \/ NoCommit
    \/ TreeGet
    \/ BuildItem
    \/ TreeDictReturn
    \/ TreeString

Spec == Init /\ [][Next]_vars

ParseSpec == ParseInit /\ [][ParseNext]_vars

(***************************************************************************)
(* The page scripts.                                                       *)
(***************************************************************************)
HomeInit ==
    /\ op = "Home"
    /\ url = <<>>
    /\ pc = "page"
    /\ Idle
    /\ NewSession

\* Where the latest script run is, in pc: "page" between two runs, "home" in
\* the st.* calls of a run of Home.py without Save, "save" in a Save run,
\* "setup" in the st.sidebar calls of the EnvironmentSetup page.

\* a run of Home.py without a click on Save starts: the session state init
\* of lines 23-37, up to the st.* calls of lines 48-89
HomeRun ==
    /\ session_state' = SessionInit(session_state)
    /\ page' = Shown("Home", "", FALSE)
    /\ save' = Cut(save)
    /\ stale' \in ReplacedRuns
    /\ pc' = "home"
    /\ UNCHANGED call_vars

\* the run goes on to its end: Check input, lines 94-97
HomeCheckInput ==
    /\ pc = "home"
    /\ page' = Shown("Home", CheckInput(session_state.entries.options), FALSE)
    /\ pc' = "page"
    /\ UNCHANGED <<session_state, save, stale>>
    /\ UNCHANGED call_vars

\* the run of Home.py that a click on Save starts, up to the call of
\* gpt.api_check in line 61, which waits for the answer of the remote
SaveClick ==
    /\ page.name = "Home"
    /\ session_state' = SessionInit(session_state)
    /\ \E k \in ApiKeys, u \in UrlSamples :
        save' = [clicked |-> TRUE, api_key |-> PyStr(k), repository_url |-> PyStr(u),
                 gpt |-> FALSE, gemini |-> FALSE, at |-> "wait"]
    /\ stale' \in ReplacedRuns
    /\ page' = Shown("Home", "", FALSE)
    /\ pc' = "save"
    /\ UNCHANGED call_vars

\* the run goes on: the api_check calls answer and line 62, 66 or 70 assigns
\* options["api_key"]
SaveKeyCheck ==
    /\ pc = "save"
    /\ save.at = "wait"
    /\ \E g \in BOOLEAN, m \in BOOLEAN :
        LET options == session_state.entries.options
            checked == KeyChecked(options, save.api_key, g, m)
        IN  /\ session_state' =
                    PyDict(Put(session_state.entries, "options",
                               PyDict(Put(options.entries, "api_key",
                                          checked.entries.api_key))))
            /\ save' = [save EXCEPT !.gpt = gpt_api_check(save.api_key, g),
                                    !.gemini = gemini_api_check(save.api_key, m),
                                    !.at = "type"]
    /\ UNCHANGED <<page, stale, pc>>
    /\ UNCHANGED call_vars

\* the run goes on: line 63, 67 or 71 assigns options["api_type"], up to the
\* st.sidebar call that follows
SaveTypeWrite ==
    /\ pc = "save"
    /\ save.at = "type"
    /\ LET options == session_state.entries.options
           checked == KeyChecked(options, save.api_key, save.gpt, save.gemini)
       IN  session_state' =
                PyDict(Put(session_state.entries, "options",
                           PyDict(Put(options.entries, "api_type",
                                      checked.entries.api_type))))
    /\ save' = [save EXCEPT !.at = "key"]
    /\ UNCHANGED <<page, stale, pc>>
    /\ UNCHANGED call_vars

\* the run goes on: lines 74-79, up to the st.sidebar call that follows the
\* URL check; an exception of url_check ends the script
SaveUrlCheck ==
    /\ pc = "save"
    /\ save.at = "key"
    /\ LET options == UrlChecked(session_state.entries.options, save.repository_url)
       IN  IF IsErr(options)
           THEN /\ save' = [save EXCEPT !.at = "raised"]
                /\ page' = Shown("Home", options.exc, FALSE)
                /\ pc' = "page"
                /\ UNCHANGED session_state
           ELSE /\ session_state' = PyDict(Put(session_state.entries, "options", options))
                /\ save' = [save EXCEPT !.at = "url"]
                /\ UNCHANGED <<page, pc>>
    /\ UNCHANGED stale
    /\ UNCHANGED call_vars

\* the run goes on: lines 81-82, up to the st.title call of line 87;
\* options is the dict the session already holds, so line 81 changes nothing
SaveWriteBack ==
    /\ pc = "save"
    /\ save.at = "url"
    /\ session_state' = PyDict(Put(session_state.entries, "contents", NewContents))
    /\ save' = [save EXCEPT !.at = "written"]
    /\ UNCHANGED <<page, stale, pc>>
    /\ UNCHANGED call_vars

\* the run goes on to its end: Check input, lines 94-97
SaveCheckInput ==
    /\ pc = "save"
    /\ save.at = "written"
    /\ page' = Shown("Home", CheckInput(session_state.entries.options), FALSE)
    /\ save' = [save EXCEPT !.at = "end"]
    /\ pc' = "page"
    /\ UNCHANGED <<session_state, stale>>
    /\ UNCHANGED call_vars

\* a replaced Save run goes on by one assignment, beside the runs that
\* followed it: after line 62, 66 or 70 it has line 63, 67 or 71 ahead;
\* after those, after line 75 or 78 and after line 82 it reaches an st.* call
\* and ends there.  It shows nothing, and an exception of url_check ends it
\* with nothing written.
ReplacedSave ==
    /\ \E i \in DOMAIN stale, g \in BOOLEAN, m \in BOOLEAN :
        LET run == stale[i]
            options == session_state.entries.options
            checked == IF run.part = "wait" THEN KeyChecked(options, run.typed, g, m)
                       ELSE IF run.part = "key" THEN UrlChecked(options, run.typed)
                       ELSE options
            others == [j \in 1..(Len(stale) - 1) |->
                            IF j < i THEN stale[j] ELSE stale[j + 1]]
        IN  /\ stale' = IF run.part = "wait"
                        THEN [stale EXCEPT ![i] = [part |-> "type",
                                                   typed |-> checked.entries.api_type]]
                        ELSE others
            /\ session_state' =
                    IF run.part = "wait"
                    THEN PyDict(Put(session_state.entries, "options",
                                    PyDict(Put(options.entries, "api_key",
                                               checked.entries.api_key))))
                    ELSE IF run.part = "type"
                    THEN PyDict(Put(session_state.entries, "options",
                                    PyDict(Put(options.entries, "api_type", run.typed))))
                    ELSE IF run.part = "url"
                    THEN PyDict(Put(session_state.entries, "contents", NewContents))
                    ELSE IF IsErr(checked) THEN session_state
                    ELSE PyDict(Put(session_state.entries, "options", checked))
    /\ UNCHANGED <<page, save, pc>>
    /\ UNCHANGED call_vars

\* a run of pages/02_EnvironmentSetup.py starts: lines 11-12, up to the
\* st.sidebar calls of lines 17-19
EnvironmentSetup ==
    /\ page' = Shown("EnvironmentSetup", "", FALSE)
    /\ save' = Cut(save)
    /\ stale' \in ReplacedRuns
    /\ pc' = "setup"
    /\ UNCHANGED session_state
    /\ UNCHANGED call_vars

\* the run goes on: the guard of lines 24-26 and, when it passes, the page of
\* lines 28-34; no code writes the two keys that lines 11-12 read
EnvironmentGuard ==
    /\ pc = "setup"
    /\ LET api_token == Get(session_state, "api_token", PyStr(S_empty))
           repository_url == Get(session_state, "repository_url", PyStr(S_empty))
       IN  page' = IF ~(Truthy(api_token) /\ Truthy(repository_url))
                   THEN Shown("EnvironmentSetup", "error", TRUE)
                   ELSE Shown("EnvironmentSetup", "", FALSE)
    /\ pc' = "page"
    /\ UNCHANGED <<session_state, save, stale>>
    /\ UNCHANGED call_vars

HomeNext ==
    \/ HomeRun
    \/ HomeCheckInput
    \/ SaveClick
    \/ SaveKeyCheck
    \/ SaveTypeWrite
    \/ SaveUrlCheck
    \/ SaveWriteBack
    \/ SaveCheckInput
    \/ ReplacedSave
    \/ EnvironmentSetup
    \/ EnvironmentGuard

HomeSpec == HomeInit /\ [][HomeNext]_vars

(***************************************************************************)
(* Properties.                                                             *)
(***************************************************************************)
Done == pc = "done"
Returned(v) == Done /\ result = Return(v)
\* a request that ended with a 200 response
Ok(r) == ~r.outcome.exc /\ r.outcome.status = 200
\* the prefix every endpoint of the repository of a URL starts with, for the
\* URLs that name a repository
RepoPrefixes ==
    [u \in {v \in UrlSamples : url_check(v) = PyBool(TRUE)} |->
        S_repos \o Owner(u) \o <<"/">> \o Repo(u)]
RepoPrefix == RepoPrefixes[url]
\* the URLs url_check answers False for
Rejected == {u \in UrlSamples : url_check(u) = PyBool(FALSE)}
BranchLookupOf(prefix, branch) == prefix \o S_branches \o <<"/">> \o branch
TreeRequestOf(prefix, sha) == prefix \o S_git_trees \o sha
IsBranchLookupOf(prefix, r) ==
    r.endpoint \in {BranchLookupOf(prefix, S_main), BranchLookupOf(prefix, S_master)}
IsTreeRequestOf(prefix, r) ==
    \E v \in ShaValues : r.endpoint = TreeRequestOf(prefix, py_str(v).chars)
\* the "sha" of the body of a branch lookup, as text
ShaIn(r) == py_str(r.outcome.body.entries.commit.entries.sha)

\* C1: in url_tree_list the branch lookups go main, then master, and stop at
\* the first one that succeeds: after a successful main lookup master is never
\* requested; when only master succeeds there are exactly two lookups and the
\* tree is requested for the SHA of the second; when neither succeeds the
\* call returns None after the two lookups.
C1_BranchOrder ==
    (op \in TreeOps /\ requests # <<>>) =>
        LET prefix == RepoPrefix
            IsLookup(r) == IsBranchLookupOf(prefix, r)
            lookups == SelectSeq(requests, IsLookup)
            n == Len(lookups)
        IN  /\ n \in 1..2
            /\ \A i \in 1..n : requests[i] = lookups[i]
            /\ lookups[1].endpoint = BranchLookupOf(prefix, S_main)
            /\ n = 2 =>
                /\ lookups[2].endpoint = BranchLookupOf(prefix, S_master)
                /\ ~Ok(lookups[1])
            /\ (n = 1 /\ ~Ok(lookups[1])) => pc = "branches"
            /\ (n = 2 /\ Ok(lookups[2]) /\ pc # "done") => commit_sha = ShaIn(lookups[2])
            /\ \A i \in (n + 1)..Len(requests) :
                requests[i].endpoint = TreeRequestOf(prefix, ShaIn(lookups[n]).chars)
            /\ (n = 2 /\ ~Ok(lookups[2])) =>
                /\ Len(requests) = 2
                /\ pc \in {"fetch", "done"}
                /\ Done => result = Return(PyNone)

\* only master exists: two lookups, then the tree of master's commit is listed
C1_Witness ==
    /\ Returned(PyList(<<>>))
    /\ op = "url_tree_list"
    /\ Len(requests) = 3
    /\ requests[1].outcome = Http(404, PyNone)
    /\ requests[2].endpoint = BranchLookupOf(RepoPrefix, S_master)
    /\ ShaIn(requests[2]) = PyStr(<<"c", "1">>)
    /\ requests[3].endpoint = TreeRequestOf(RepoPrefix, <<"c", "1">>)

\* C5: for a URL that fails url_check every fetching function returns its
\* absent value ([] for url_branch_list, None for the others) and no request
\* is ever issued.
C5_InvalidUrlNoRequest ==
    (op \in FetchOps /\ url \in Rejected) =>
        /\ requests = <<>>
        /\ pc \in {"call", "done"}
        /\ Done => result = Return(IF op = "url_branch_list" THEN PyList(<<>>) ELSE PyNone)

C5_Witness ==
    /\ Returned(PyNone)
    /\ op = "url_tree_string"
    /\ url = S_https \o <<":", "/", "/">> \o S_gitlab_com \o <<"/", "a", "/", "b">>
    /\ requests = <<>>

\* C6: in one url_tree_dict / url_tree_string call no endpoint is requested
\* twice (at most two branch lookups and one tree listing), the tree listing
\* is requested only after a branch lookup succeeded, the nested structure is
\* built only after the tree listing succeeded, and when the last request
\* failed the call returns None; a returned structure holds every item.
C6_SingleAttempt ==
    /\ (pc = "build" \/ tree_dict # PyNone) => requests # <<>>
    /\ (op \in {"url_tree_dict", "url_tree_string"} /\ requests # <<>>) =>
      LET prefix == RepoPrefix
          IsLookup(r) == IsBranchLookupOf(prefix, r)
          IsTree(r) == IsTreeRequestOf(prefix, r)
      IN
        /\ \A i, j \in DOMAIN requests : requests[i].endpoint = requests[j].endpoint => i = j
        /\ Len(SelectSeq(requests, IsLookup)) <= 2
        /\ Len(SelectSeq(requests, IsTree)) <= 1
        /\ Len(requests) <= 3
        /\ \A i \in DOMAIN requests :
            IsTree(requests[i]) =>
                /\ i > 1
                /\ IsLookup(requests[i - 1])
                /\ Ok(requests[i - 1])
        /\ (pc = "build" \/ tree_dict # PyNone) =>
            /\ IsTree(requests[Len(requests)])
            /\ Ok(requests[Len(requests)])
        /\ (Done /\ ~Ok(requests[Len(requests)])) =>
            /\ result = Return(PyNone)
            /\ tree_dict = PyNone
        /\ (Done /\ result.kind = "return" /\ result.value # PyNone) =>
            /\ Ok(requests[Len(requests)])
            /\ item_i = Len(file_list.elems) + 1

\* the tree listing fails after master resolved: None, nothing built
C6_Witness ==
    /\ Returned(PyNone)
    /\ op = "url_tree_dict"
    /\ Len(requests) = 3
    /\ Ok(requests[2])
    /\ requests[3].outcome = NetworkFailure
    /\ tree_dict = PyNone

(***************************************************************************)
(* Reading a rendered string back, and the nodes of a nested structure.    *)
(***************************************************************************)
\* the lines of a string that ends with a newline
LinesOf(str) ==
    LET parts == Split(str, "\n") IN SubSeq(parts, 1, Len(parts) - 1)
EndsWithNewline(str) == str # <<>> /\ str[Len(str)] = "\n"

\* the k-th 4-character column of a line
Col(l, k) == SubSeq(l, 4 * k - 3, 4 * k)
HasShape(l) ==
    \E d \in 1..(Len(l) \div 4) :
        /\ Col(l, d) \in {G_last, G_tee}
        /\ \A k \in 1..(d - 1) : Col(l, k) \in {G_blank, G_bar}
\* the level of a line: 1 for the children of the root
Depth(l) ==
    CHOOSE d \in 1..(Len(l) \div 4) :
        /\ Col(l, d) \in {G_last, G_tee}
        /\ \A k \in 1..(d - 1) : Col(l, k) \in {G_blank, G_bar}
LineIsDir(l) == l[Len(l)] = "/"
LineName(l) ==
    SubSeq(l, 4 * Depth(l) + 1, IF LineIsDir(l) THEN Len(l) - 1 ELSE Len(l))

\* the path of names from the root to the node line i of L stands for
RECURSIVE PathOfLine(_, _)
PathOfLine(L, i) ==
    IF Depth(L[i]) = 1 THEN <<LineName(L[i])>>
    ELSE LET up == CHOOSE j \in 1..(i - 1) :
                        /\ Depth(L[j]) = Depth(L[i]) - 1
                        /\ \A k \in (j + 1)..(i - 1) : Depth(L[k]) >= Depth(L[i])
         IN  PathOfLine(L, up) \o <<LineName(L[i])>>

\* every line but the first has a line of the level above somewhere before it
WellNested(L) ==
    \A i \in DOMAIN L :
        /\ HasShape(L[i])
        /\ Depth(L[i]) > 1 =>
            \E j \in 1..(i - 1) :
                /\ Depth(L[j]) = Depth(L[i]) - 1
                /\ LineIsDir(L[j])
                /\ \A k \in (j + 1)..(i - 1) : Depth(L[k]) >= Depth(L[i])

\* the paths of all nodes below node
RECURSIVE NodePaths(_)
NodePaths(node) ==
    IF ~IsDict(node) THEN {}
    ELSE UNION {{<<k>>} \cup {<<k>> \o q : q \in NodePaths(node.entries[k])} :
                    k \in DOMAIN node.entries}

RECURSIVE NodeAt(_, _)
NodeAt(node, path) ==
    IF path = <<>> THEN node ELSE NodeAt(node.entries[Head(path)], Tail(path))

\* a finished url_tree_string call that returned a string
Rendered == Done /\ op = "url_tree_string" /\ result.kind = "return" /\ result.value.ty = "str"
\* its lines after the Root line
NodeLines == Tail(LinesOf(result.value.chars))

\* lines i < j of the same directory
Siblings(L, i, j) ==
    /\ i < j
    /\ Depth(L[i]) = Depth(L[j])
    /\ \A k \in (i + 1)..(j - 1) : Depth(L[k]) >= Depth(L[i])

\* the lines directly after line i that lie deeper than it
Block(L, i) ==
    {j \in (i + 1)..Len(L) : \A k \in (i + 1)..j : Depth(L[k]) > Depth(L[i])}

\* C7: at every level of the rendered string the child directories come
\* before the child files, each group in ascending order of name, and the
\* lines that follow a directory's line, up to its next sibling, are exactly
\* the nodes of that directory's subtree.
C7_RenderOrder ==
    Rendered =>
        LET L == NodeLines
        IN  /\ WellNested(L)
            /\ \A i, j \in DOMAIN L :
                Siblings(L, i, j) =>
                    /\ LineIsDir(L[j]) => LineIsDir(L[i])
                    /\ (LineIsDir(L[i]) = LineIsDir(L[j])) =>
                            StrLess(LineName(L[i]), LineName(L[j]))
            /\ \A i \in DOMAIN L :
                LET path == PathOfLine(L, i)
                IN  /\ path \in NodePaths(tree_dict)
                    /\ LineIsDir(L[i]) = IsDict(NodeAt(tree_dict, path))
                    /\ {PathOfLine(L, j) : j \in Block(L, i)} =
                            {path \o q : q \in NodePaths(NodeAt(tree_dict, path))}
                    /\ Cardinality(Block(L, i)) =
                            Cardinality(NodePaths(NodeAt(tree_dict, path)))

Str(pieces) == PyStr(Concat(pieces))

\* a file, then two directories out of order: b/ and src/ come first
C7_Witness ==
    /\ Rendered
    /\ file_list = PyList(<<PyDict([path |-> PyStr(P_a_py), type |-> PyStr(S_blob)]),
                            PyDict([path |-> PyStr(P_src_b_c_py), type |-> PyStr(S_blob)]),
                            PyDict([path |-> PyStr(P_b), type |-> PyStr(S_tree)])>>)
    /\ result.value = Str(<<S_Root,
                            G_tee, <<"b", "/", "\n">>,
                            G_tee, <<"s", "r", "c", "/", "\n">>,
                            G_bar, G_last, <<"b", "/", "\n">>,
                            G_bar, G_blank, G_last, <<"c", ".", "p", "y", "\n">>,
                            G_last, <<"a", ".", "p", "y", "\n">>>>)

(***************************************************************************)
(* The line a node must have, computed from the nested structure alone.    *)
(***************************************************************************)
\* child k is listed before child n of the same directory
Before(parent, k, n) ==
    \/ IsDict(parent.entries[k]) /\ ~IsDict(parent.entries[n])
    \/ /\ IsDict(parent.entries[k]) = IsDict(parent.entries[n])
       /\ StrLess(k, n)
IsLastChild(parent, n) ==
    \A k \in DOMAIN parent.entries \ {n} : Before(parent, k, n)
\* whether the i-th node on the path is the last child of its directory
LastOnPath(tree, path, i) ==
    IsLastChild(NodeAt(tree, SubSeq(path, 1, i - 1)), path[i])
ExpectedLine(tree, path) ==
    Concat([i \in 1..(Len(path) - 1) |->
                IF LastOnPath(tree, path, i) THEN G_blank ELSE G_bar])
        \o (IF LastOnPath(tree, path, Len(path)) THEN G_last ELSE G_tee)
        \o path[Len(path)]
        \o (IF IsDict(NodeAt(tree, path)) THEN <<"/">> ELSE <<>>)

\* the listing src/a.py, src/b/c.py
ExampleListing ==
    PyList(<<PyDict([path |-> PyStr(P_src_a_py), type |-> PyStr(S_blob)]),
             PyDict([path |-> PyStr(P_src_b_c_py), type |-> PyStr(S_blob)])>>)

\* every node has the line its place in the structure gives it, and every
\* line is the line of a node
C8_EveryLine ==
    Rendered =>
        LET L == NodeLines
            expected == {ExpectedLine(tree_dict, p) : p \in NodePaths(tree_dict)}
        IN  {L[i] : i \in DOMAIN L} = expected

\* C8 as stated: the line format, and for src/a.py and src/b/c.py the lines
\* Root, src/, a.py, b/, c.py
C8_Original ==
    /\ C8_EveryLine
    /\ (Rendered /\ file_list = ExampleListing) =>
        result.value = Str(<<S_Root,
                             G_last, <<"s", "r", "c", "/", "\n">>,
                             G_blank, G_tee, <<"a", ".", "p", "y", "\n">>,
                             G_blank, G_last, <<"b", "/", "\n">>,
                             G_blank, G_blank, G_last, <<"c", ".", "p", "y", "\n">>>>)

\* C8 (amended): the line of every node is one column per ancestor below the
\* root (a bar when that ancestor is not the last child of its directory, a
\* blank when it is), the connector of a last or of a non-last child, the
\* name, and '/' exactly for a directory; for src/a.py and src/b/c.py the
\* lines are Root, src/, b/, c.py, a.py: the directory b/ before the file a.py.
C8_LineFormat ==
    /\ C8_EveryLine
    /\ (Rendered /\ file_list = ExampleListing) =>
        result.value = Str(<<S_Root,
                             G_last, <<"s", "r", "c", "/", "\n">>,
                             G_blank, G_tee, <<"b", "/", "\n">>,
                             G_blank, G_bar, G_last, <<"c", ".", "p", "y", "\n">>,
                             G_blank, G_last, <<"a", ".", "p", "y", "\n">>>>)

C8_Witness ==
    /\ Rendered
    /\ file_list = ExampleListing
    /\ Len(NodeLines) = 4
    /\ NodeLines[3] = G_blank \o G_bar \o G_last \o <<"c", ".", "p", "y">>

\* C9: a url_tree_string call whose tree listing succeeded and whose items
\* were all placed returns a string, never None: the line Root, then one line
\* per node of the nested structure and nothing else.  An empty listing gives
\* exactly "Root\n"; a directory without children gives its own line only.
C9_OneLinePerNode ==
    (Done /\ op = "url_tree_string" /\ result.kind = "return"
          /\ requests # <<>> /\ IsTreeRequestOf(RepoPrefix, requests[Len(requests)])
          /\ Ok(requests[Len(requests)])) =>
        /\ result.value.ty = "str"
        /\ EndsWithNewline(result.value.chars)
        /\ Head(LinesOf(result.value.chars)) = <<"R", "o", "o", "t">>
        /\ Len(NodeLines) = Cardinality(NodePaths(tree_dict))
        /\ WellNested(NodeLines)
        /\ {PathOfLine(NodeLines, i) : i \in DOMAIN NodeLines} = NodePaths(tree_dict)
        /\ file_list = PyList(<<>>) => result.value = PyStr(S_Root)
        /\ \A i \in DOMAIN NodeLines :
            NodeAt(tree_dict, PathOfLine(NodeLines, i)) = EmptyDict =>
                /\ LineIsDir(NodeLines[i])
                /\ Block(NodeLines, i) = {}
        /\ file_list = PyList(<<PyDict([path |-> PyStr(P_src), type |-> PyStr(S_tree)])>>) =>
            result.value = Str(<<S_Root, G_last, <<"s", "r", "c", "/", "\n">>>>)

\* the listing with zero entries
C9_Witness ==
    /\ Rendered
    /\ Ok(requests[Len(requests)])
    /\ "tree" \in DOMAIN requests[Len(requests)].outcome.body.entries
    /\ file_list = PyList(<<>>)
    /\ result.value = PyStr(S_Root)

(***************************************************************************)
(* Statements the code does not satisfy.                                   *)
(***************************************************************************)
\* A URL scheme://host[path][?query][#fragment] read without the parser:
\* where "://" starts, 0 when the URL has none
SchemeEnd(u) ==
    LET at == {i \in 1..(Len(u) - 2) : SubSeq(u, i, i + 2) = <<":", "/", "/">>}
    IN  IF at = {} THEN 0 ELSE CHOOSE i \in at : \A j \in at : i <= j
\* what follows "://"
AfterScheme(u) == SubSeq(u, SchemeEnd(u) + 3, Len(u))
\* where the host ends: before the first '/', '?' or '#'
HostEnd(u) ==
    LET at == {i \in DOMAIN AfterScheme(u) : AfterScheme(u)[i] \in {"/", "?", "#"}}
    IN  IF at = {} THEN Len(AfterScheme(u))
        ELSE (CHOOSE i \in at : \A j \in at : i <= j) - 1
\* scheme https (in either case of the letters) and host exactly github.com
IsGithubHttps(u) ==
    /\ SchemeEnd(u) # 0
    /\ Lower(SubSeq(u, 1, SchemeEnd(u) - 1)) = S_https
    /\ SubSeq(AfterScheme(u), 1, HostEnd(u)) = S_github_com
\* the path segments: what lies between the slashes of the path, leading
\* and trailing slashes dropped
Segments(u) ==
    LET rest == SubSeq(AfterScheme(u), HostEnd(u) + 1, Len(AfterScheme(u)))
        path == Split(Split(rest, "#")[1], "?")[1]
    IN  Split(Strip(path, "/"), "/")

NoRepo == PyTuple(<<PyNone, PyNone>>)

\* C10: for a URL with scheme https, host exactly github.com and at least
\* two path segments parse_github_repo_url returns the first two segments as
\* (owner, name) and ignores the rest; for a URL with another scheme or
\* another host it returns (None, None) and url_check returns false; and
\* url_check is true exactly when both returned components are non-empty.
\* Violated: urlparse raises ValueError for the host "[github.com", and the
\* exception leaves both functions.
C10_Parse ==
    Done =>
        /\ (op = "parse_github_repo_url" /\ IsGithubHttps(url)
                /\ Len(Segments(url)) >= 2) =>
            result = Return(PyTuple(<<PyStr(Segments(url)[1]), PyStr(Segments(url)[2])>>))
        /\ ~IsGithubHttps(url) =>
            /\ op = "parse_github_repo_url" => result = Return(NoRepo)
            /\ op = "url_check" => result = Return(PyBool(FALSE))
        /\ op = "url_check" =>
            LET parsed == parse_github_repo_url(url)
            IN  result = Return(PyBool(/\ ~IsErr(parsed)
                                       /\ Truthy(parsed.items[1])
                                       /\ Truthy(parsed.items[2])))

DirPaths(tree) == {p \in NodePaths(tree) : IsDict(NodeAt(tree, p))}

\* C2: a name that is a Directory node of the structure being built stays a
\* Directory node through every later step of the build.
C2_DirectoryKept ==
    [][DirPaths(tree_dict) \subseteq DirPaths(tree_dict')]_vars

Perms(n) == {f \in [1..n -> 1..n] : \A i, j \in 1..n : f[i] = f[j] => i = j}
\* how url_tree_dict and url_tree_string end for a fetched list of items
EndOfDict(items) ==
    LET t == BuildFrom(EmptyDict, items)
    IN  IF IsErr(t) THEN Raise(t.exc) ELSE Return(t)
EndOfString(items) ==
    LET t == BuildFrom(EmptyDict, items)
    IN  IF IsErr(t) THEN Raise(t.exc) ELSE Return(TreeStringOf(t))

\* C3: the nested dict and the rendered string a call returned are what the
\* call gives for every other ordering of the same entries.
C3_OrderIndependent ==
    (Done /\ op \in {"url_tree_dict", "url_tree_string"} /\ file_list # PyNone
          /\ result.kind = "return") =>
        \A f \in Perms(Len(file_list.elems)) :
            LET other == [i \in DOMAIN file_list.elems |-> file_list.elems[f[i]]]
            IN  result = IF op = "url_tree_dict" THEN EndOfDict(other)
                         ELSE EndOfString(other)

\* C4: every fetching function that reached the remote ends with a returned
\* value, whatever the remote answered.
C4_NeverRaises ==
    (Done /\ op \in FetchOps /\ requests # <<>>) => result.kind = "return"


(***************************************************************************)
(* The session: Home.py and the EnvironmentSetup page.                     *)
(***************************************************************************)
HasOptions == "options" \in DOMAIN session_state.entries
StoredKey == session_state.entries.options.entries.api_key
StoredType == session_state.entries.options.entries.api_type
StoredUrl == session_state.entries.options.entries.repository_url
\* the state in which Home reports that key and URL are confirmed
StoredBoth == HasOptions /\ Truthy(StoredKey) /\ Truthy(StoredUrl)

\* C11: when a Save has stored a non-empty API key and a non-empty
\* repository URL and Home has reported both as confirmed, a run of the
\* EnvironmentSetup page passes its guard: it shows no error and does not
\* stop.
\* Violated: the page reads st.session_state["api_token"] and
\* st.session_state["repository_url"], keys that Home.py never writes.
C11_GuardPasses ==
    (page.name = "EnvironmentSetup" /\ pc = "page"
            /\ save.clicked /\ save.at = "end" /\ StoredBoth)
        => (~page.stopped /\ page.message # "error")

\* no Save run is between two of its assignments: the latest run is not a
\* Save run on its way, and no replaced Save run is still running
Settled == HasOptions /\ pc # "save" /\ stale = <<>>

\* C12: after any sequence of Save clicks, once no Save run is on its way,
\* api_type is "", "GPT" or "GEMINI"; api_type is "" exactly when api_key is
\* ""; repository_url is "" or a URL that url_check accepts; and when the
\* run of the latest Save was not replaced, a non-empty api_key is the key of
\* that Save, which passed the GPT check (api_type "GPT") or failed it and
\* passed the Gemini check (api_type "GEMINI"), api_key is "" when both
\* checks rejected its key, and repository_url is "" when its URL is not one
\* url_check accepts.
\* Violated: a Save run replaced while gpt.api_check waits for its answer
\* assigns lines 62-71 after the runs that followed it, so the key of an
\* earlier Save replaces what the latest Save stored; and url_check raises
\* ValueError for the URL https://[github.com/a/b, which ends the run at line
\* 74 with the URL of the Save before still stored.
C12_Options ==
    Settled =>
        /\ StoredType.chars \in {S_empty, S_GPT, S_GEMINI}
        /\ (StoredType.chars = S_empty) <=> (StoredKey.chars = S_empty)
        /\ (StoredUrl.chars = S_empty \/ url_check(StoredUrl.chars) = PyBool(TRUE))
        /\ (save.clicked /\ save.at \in {"end", "raised"}) =>
            /\ Truthy(StoredKey) =>
                /\ StoredKey = save.api_key
                /\ \/ StoredType.chars = S_GPT /\ save.gpt
                   \/ StoredType.chars = S_GEMINI /\ ~save.gpt /\ save.gemini
            /\ (~save.gpt /\ ~save.gemini) => StoredKey.chars = S_empty
            /\ url_check(save.repository_url.chars) # PyBool(TRUE) =>
                    StoredUrl.chars = S_empty

====
